---- MODULE Spec2Model ----
(***************************************************************************)
(* county_mask_generator.CountyMaskGenerator: grid generation, spatial     *)
(* join of the grid with the county polygons, and weight-mask construction.*)
(*                                                                         *)
(* Conventions of the model                                                *)
(*  - Python None is the empty tuple; an optional value v is <<v>>.        *)
(*  - A float cell that may be NaN is <<>> (NaN) or <<v>> (the number v).  *)
(*  - Coordinates are exact rationals kept as integers in units of 1/Scale *)
(*    degree, Scale being a common multiple of every linspace divisor.     *)
(*  - A weight is the exact rational <<num, den>> of the float the code    *)
(*    computes (0.0 is <<0, 1>>, 1.0 / c is <<1, c>>).                      *)
(*  - numpy/pandas positions are 0-based; sequences here are 1-based, so   *)
(*    position p of the code is position p + 1 of the model.  The pandas   *)
(*    index labels themselves are kept 0-based.                            *)
(*  - Region identifiers are numbers: fips_array is a float array, so an   *)
(*    identifier is stored in it as the number it converts to.             *)
(*  - Polygons are axis-aligned rectangles; "within" is shapely's: the     *)
(*    point lies in the interior (a point on the boundary is not within).  *)
(***************************************************************************)
EXTENDS Integers, Sequences, FiniteSets, TLC

None == <<>>

NaN == <<>>

\* Largest step count a caller passes to generate_grid_points.
MaxSteps == 2

\* Default number of steps per axis when the caller passes None.
DefaultSteps == 100

RECURSIVE Gcd(_, _)
Gcd(a, b) == IF b = 0 THEN a ELSE Gcd(b, a % b)

RECURSIVE LcmUpTo(_)
LcmUpTo(n) == IF n <= 1 THEN 1 ELSE (LcmUpTo(n - 1) * n) \div Gcd(LcmUpTo(n - 1), n)

\* Units per degree: every (stop - start) / (num - 1) with num <= MaxSteps is exact.
Scale == LcmUpTo(MaxSteps - 1)

(***************************************************************************)
(* The shapefiles on disk.  A region row carries its attribute columns and *)
(* the rectangle (in degrees) that is its polygon.                         *)
(***************************************************************************)
Rect(x0, y0, x1, y1) == [minx |-> x0, miny |-> y0, maxx |-> x1, maxy |-> y1]

\* Two counties that overlap in the strip 1 < lon < 3, -1 < lat < 1 and leave
\* the corner lon < 1, lat > 1 of their bounding box uncovered.
OverlapShp ==
    [exists |-> TRUE, crs |-> <<"EPSG:4326">>, columns |-> {"FIPS", "GEOID", "geometry"},
     rows |-> << [vals |-> [FIPS |-> 1, GEOID |-> 11], geometry |-> Rect(-1, -1, 3, 1)],
                 [vals |-> [FIPS |-> 2, GEOID |-> 12], geometry |-> Rect(1, -1, 3, 3)] >>]

\* Two disjoint counties carrying the same GEOID (their FIPS differ).
DuplicateShp ==
    [exists |-> TRUE, crs |-> <<"EPSG:4326">>, columns |-> {"FIPS", "GEOID", "geometry"},
     rows |-> << [vals |-> [FIPS |-> 1, GEOID |-> 11], geometry |-> Rect(-1, -1, 1, 3)],
                 [vals |-> [FIPS |-> 2, GEOID |-> 11], geometry |-> Rect(1, -1, 3, 3)] >>]

\* Two disjoint counties keyed by GEOID only: the file has no FIPS column.
GeoidShp ==
    [exists |-> TRUE, crs |-> <<"EPSG:4326">>, columns |-> {"GEOID", "geometry"},
     rows |-> << [vals |-> [GEOID |-> 11], geometry |-> Rect(-1, -1, 1, 3)],
                 [vals |-> [GEOID |-> 12], geometry |-> Rect(1, -1, 3, 1)] >>]

\* A shapefile without a coordinate reference system.
NaiveShp ==
    [exists |-> TRUE, crs |-> None, columns |-> {"FIPS", "GEOID", "geometry"},
     rows |-> << [vals |-> [FIPS |-> 1, GEOID |-> 11], geometry |-> Rect(-1, -1, 3, 3)] >>]

\* A path at which there is no file.
MissingShp == [exists |-> FALSE, crs |-> None, columns |-> {}, rows |-> <<>>]

Files ==
    [p \in {"overlap.shp", "duplicate.shp", "geoid.shp", "naive.shp", "missing.shp"} |->
        CASE p = "overlap.shp" -> OverlapShp
          [] p = "duplicate.shp" -> DuplicateShp
          [] p = "geoid.shp" -> GeoidShp
          [] p = "naive.shp" -> NaiveShp
          [] OTHER -> MissingShp]

\* The constructor calls the model explores.
ConstructorCalls ==
    { <<"overlap.shp", "FIPS">>, <<"duplicate.shp", "GEOID">>, <<"geoid.shp", "GEOID">>,
      <<"geoid.shp", "FIPS">>, <<"naive.shp", "FIPS">>, <<"missing.shp", "FIPS">> }

\* The arguments the model passes to generate_grid_points (degrees; steps).
LatRanges == {None, <<0, 2>>, <<2, 0>>, <<1, 1>>}

LonRanges == {None, <<0, 2>>}

StepCounts == {<<n>> : n \in -1 .. MaxSteps}

NoArgs == [lat_range |-> None, lon_range |-> None, lat_steps |-> None, lon_steps |-> None]

NoFrame == [columns |-> {}, rows |-> <<>>]

NoDataset == [lat |-> <<>>, lon |-> <<>>, FIPS |-> <<>>, weights |-> <<>>]

VARIABLES
    op,                 \* the method called last ("new": none yet)
    outcome,            \* "ok", or the exception the last call raised
    args,               \* the arguments of the last generate_grid_points call
    attrs,              \* the attributes set on the instance so far
    county_identifier,  \* self.county_identifier
    counties,           \* self.counties
    grid_points,        \* self.grid_points
    grid_with_counties, \* self.grid_with_counties
    ds,                 \* the Dataset the last call returned (create_weight_mask)
    last_assignment     \* history: the table the latest assign_grid_to_county returned

vars == <<op, outcome, args, attrs, county_identifier, counties, grid_points,
          grid_with_counties, ds, last_assignment>>

(***************************************************************************)
(* utils.validate_shapefile and the constructor                            *)
(***************************************************************************)
read_file(shapefile_path) == Files[shapefile_path]

validate_shapefile(shapefile_path, required_columns) ==
    /\ Files[shapefile_path].exists
    /\ \A column \in required_columns : column \in read_file(shapefile_path).columns

load_county_shapefile(shapefile_path) == read_file(shapefile_path)

Init ==
    /\ op = "new"
    /\ outcome = "ok"
    /\ args = NoArgs
    /\ attrs = {}
    /\ county_identifier = ""
    /\ counties = MissingShp
    /\ grid_points = <<>>
    /\ grid_with_counties = NoFrame
    /\ ds = NoDataset
    /\ last_assignment = NoFrame

__init__ ==
    \E call \in ConstructorCalls :
        LET shapefile_path == call[1]
            identifier == call[2]
        IN  /\ op = "new"
            /\ op' = "__init__"
            /\ county_identifier' = identifier
            /\ IF ~validate_shapefile(shapefile_path, {identifier})
               THEN /\ outcome' = "ValueError"
                    /\ attrs' = {"county_identifier"}
                    /\ UNCHANGED counties
               ELSE /\ outcome' = "ok"
                    /\ attrs' = {"county_identifier", "counties"}
                    /\ counties' = load_county_shapefile(shapefile_path)
            /\ UNCHANGED <<args, grid_points, grid_with_counties, ds, last_assignment>>

\* A method can be called on an instance whose constructor returned.
Constructed == "counties" \in attrs

(***************************************************************************)
(* generate_grid_points                                                    *)
(***************************************************************************)
Min(S) == CHOOSE x \in S : \A y \in S : x <= y

Max(S) == CHOOSE x \in S : \A y \in S : y <= x

\* GeoDataFrame.total_bounds: (minx, miny, maxx, maxy) over all geometries.
total_bounds(gdf) ==
    LET g == {gdf.rows[r].geometry : r \in 1 .. Len(gdf.rows)}
    IN  << Min({b.minx : b \in g}), Min({b.miny : b \in g}),
           Max({b.maxx : b \in g}), Max({b.maxy : b \in g}) >>

\* linspace as it would be with endpoint=False: the step is (stop - start) / num.
linspace_no_endpoint(start, stop, num) ==
    [k \in 1 .. num |-> start * Scale + ((k - 1) * (stop - start) * Scale) \div num]

\* np.linspace(start, stop, num) for num >= 0, endpoint included: start alone
\* when num = 1, else start + i * (stop - start) / (num - 1) for i = 0 .. num - 1.
linspace(start, stop, num) ==
    [k \in 1 .. num |->
        IF num = 1 THEN start * Scale
        ELSE start * Scale + ((k - 1) * (stop - start) * Scale) \div (num - 1)]

\* np.meshgrid(lon, lat): two arrays of shape (len(lat), len(lon)).
meshgrid(lon, lat) ==
    [lon_grid |-> [i \in 1 .. Len(lat) |-> [j \in 1 .. Len(lon) |-> lon[j]]],
     lat_grid |-> [i \in 1 .. Len(lat) |-> [j \in 1 .. Len(lon) |-> lat[i]]]]

\* ndarray.ravel() of a 2-D array: its rows one after the other.
ravel(a) ==
    IF Len(a) = 0 THEN <<>>
    ELSE LET w == Len(a[1])
         IN  [k \in 1 .. Len(a) * w |-> a[((k - 1) \div w) + 1][((k - 1) % w) + 1]]

\* pd.DataFrame({'lon': lons, 'lat': lats}): one row per position.
DataFrame(lons, lats) == [k \in 1 .. Len(lons) |-> [lon |-> lons[k], lat |-> lats[k]]]

\* Lines 48-55: a missing range is taken from the shapefile's bounds.
LatRangeOrBounds(gdf, lat_range) ==
    IF lat_range = None THEN <<total_bounds(gdf)[2], total_bounds(gdf)[4]>> ELSE lat_range

LonRangeOrBounds(gdf, lon_range) ==
    IF lon_range = None THEN <<total_bounds(gdf)[1], total_bounds(gdf)[3]>> ELSE lon_range

\* Lines 58-61: a missing step count is 100.
StepsOrDefault(steps) == IF steps = None THEN DefaultSteps ELSE steps[1]

\* Lines 64-70: the frame the call stores and returns.
GridFrame(gdf, lat_range, lon_range, lat_steps, lon_steps) ==
    LET lr == LatRangeOrBounds(gdf, lat_range)
        nr == LonRangeOrBounds(gdf, lon_range)
        lat == linspace(lr[1], lr[2], StepsOrDefault(lat_steps))
        lon == linspace(nr[1], nr[2], StepsOrDefault(lon_steps))
        g == meshgrid(lon, lat)
    IN  DataFrame(ravel(g.lon_grid), ravel(g.lat_grid))

\* The method on given arguments.  The step counts this model passes are
\* explicit; the default of 100 steps per axis is modelled by StepsOrDefault.
GenerateGridPoints(lat_range, lon_range, lat_steps, lon_steps) ==
    /\ Constructed
    /\ op' = "generate_grid_points"
    /\ IF StepsOrDefault(lat_steps) < 0 \/ StepsOrDefault(lon_steps) < 0
       THEN \* np.linspace: "Number of samples, -1, must be non-negative."
            /\ outcome' = "ValueError"
            /\ UNCHANGED <<attrs, grid_points>>
       ELSE /\ outcome' = "ok"
            /\ attrs' = attrs \cup {"grid_points"}
            /\ grid_points' = GridFrame(counties, lat_range, lon_range, lat_steps, lon_steps)
    /\ ds' = NoDataset
    /\ UNCHANGED <<county_identifier, counties, grid_with_counties, last_assignment>>

\* Every call the model makes of generate_grid_points.
GridArgs ==
    [lat_range : LatRanges, lon_range : LonRanges,
     lat_steps : StepCounts, lon_steps : StepCounts]

\* The calls explored inside a pipeline run: those that return a grid, the
\* latitude range given (the longitude range may be left to the bounds).
PipelineArgs ==
    {a \in GridArgs : a.lat_steps[1] >= 0 /\ a.lon_steps[1] >= 0 /\ a.lat_range # None}

\* A call inside a pipeline run.
generate_grid_points ==
    \E a \in PipelineArgs :
        /\ GenerateGridPoints(a.lat_range, a.lon_range, a.lat_steps, a.lon_steps)
        /\ UNCHANGED args

\* A call on its own, its arguments recorded beside its result.
generate_grid_points_recorded ==
    \E a \in GridArgs :
        /\ GenerateGridPoints(a.lat_range, a.lon_range, a.lat_steps, a.lon_steps)
        /\ args' = a

(***************************************************************************)
(* assign_grid_to_county                                                   *)
(***************************************************************************)
\* GeoDataFrame.to_crs("EPSG:4326") of a frame already in EPSG:4326: the same
\* geometries.  (A frame without a CRS cannot be transformed: ValueError.)
to_crs(gdf) == [gdf EXCEPT !.crs = <<"EPSG:4326">>]

\* shapely's Point(lon, lat).within(polygon) for a rectangle: strictly inside.
within(point, geometry) ==
    /\ geometry.minx * Scale < point.lon
    /\ point.lon < geometry.maxx * Scale
    /\ geometry.miny * Scale < point.lat
    /\ point.lat < geometry.maxy * Scale

\* The attribute columns the right frame contributes to the join.
RightColumns(right) == right.columns \ {"geometry"}

\* The rows of the left join for one grid point: one per county the point is
\* within, in the order of the right frame, or one row of NaN when there is none.
JoinRows(index, point, right) ==
    LET hits == SelectSeq([r \in 1 .. Len(right.rows) |-> r],
                          LAMBDA r : within(point, right.rows[r].geometry))
    IN  IF hits = <<>>
        THEN << [index |-> index, lon |-> point.lon, lat |-> point.lat,
                 index_right |-> NaN,
                 vals |-> [c \in RightColumns(right) |-> NaN]] >>
        ELSE [h \in 1 .. Len(hits) |->
                [index |-> index, lon |-> point.lon, lat |-> point.lat,
                 index_right |-> <<hits[h] - 1>>,
                 vals |-> [c \in RightColumns(right) |-> <<right.rows[hits[h]].vals[c]>>]]]

RECURSIVE JoinFrom(_, _, _)
JoinFrom(k, left, right) ==
    IF k > Len(left) THEN <<>>
    ELSE JoinRows(k - 1, left[k], right) \o JoinFrom(k + 1, left, right)

\* gpd.sjoin(left, right, how="left", predicate="within"): sorted by the left
\* index, then by the right index.
sjoin(left, right) ==
    [columns |-> {"lon", "lat", "geometry", "index_right"} \cup RightColumns(right),
     rows |-> JoinFrom(1, left, right)]

assign_grid_to_county ==
    /\ Constructed
    /\ op' = "assign_grid_to_county"
    /\ IF counties.crs = None
       THEN /\ outcome' = "ValueError"
            /\ UNCHANGED <<attrs, grid_with_counties, last_assignment>>
       ELSE IF "grid_points" \notin attrs
       THEN /\ outcome' = "AttributeError"
            /\ UNCHANGED <<attrs, grid_with_counties, last_assignment>>
       ELSE /\ outcome' = "ok"
            /\ attrs' = attrs \cup {"grid_with_counties"}
            /\ grid_with_counties' = sjoin(grid_points, to_crs(counties))
            /\ last_assignment' = grid_with_counties'
    /\ ds' = NoDataset
    /\ UNCHANGED <<args, county_identifier, counties, grid_points>>

(***************************************************************************)
(* create_weight_mask                                                      *)
(***************************************************************************)
isna(x) == x = NaN

\* frame[name] as the sequence of its values, row by row.
Column(frame, name) ==
    [r \in 1 .. Len(frame.rows) |->
        CASE name = "lat" -> frame.rows[r].lat
          [] name = "lon" -> frame.rows[r].lon
          [] OTHER -> frame.rows[r].vals[name]]

\* Series.value_counts().to_dict(): occurrences of each value, NaN dropped.
value_counts(series) ==
    [v \in {series[r] : r \in 1 .. Len(series)} \ {NaN} |->
        Cardinality({r \in 1 .. Len(series) : series[r] = v})]

\* Series.unique(): the distinct values in order of first appearance.
RECURSIVE unique(_)
unique(series) ==
    IF series = <<>> THEN <<>>
    ELSE LET n == Len(series)
             init == unique(SubSeq(series, 1, n - 1))
         IN  IF \E i \in 1 .. Len(init) : init[i] = series[n]
             THEN init
             ELSE Append(init, series[n])

\* np.where(values == x)[0][0]: the first position holding x.
where_first(values, x) == Min({i \in 1 .. Len(values) : values[i] = x})

\* np.sort of distinct values: ascending.
RECURSIVE sort(_)
sort(values) ==
    IF values = <<>> THEN <<>>
    ELSE LET m == Min({values[i] : i \in 1 .. Len(values)})
         IN  <<m>> \o sort(SelectSeq(values, LAMBDA v : v # m))

\* np.zeros((lat_len, lon_len)) and np.full((lat_len, lon_len), np.nan).
zeros(lat_len, lon_len) == [i \in 1 .. lat_len |-> [j \in 1 .. lon_len |-> <<0, 1>>]]

full_nan(lat_len, lon_len) == [i \in 1 .. lat_len |-> [j \in 1 .. lon_len |-> NaN]]

\* Lines 113-135: the loop over the rows, from row r on, on the arrays so far.
RECURSIVE FillFrom(_, _, _, _, _)
FillFrom(r, frame, fips_counts, weight_mask, fips_array) ==
    IF r > Len(frame.rows)
    THEN [weight_mask |-> weight_mask, fips_array |-> fips_array]
    ELSE LET row == frame.rows[r]
             fips == row.vals["FIPS"]
         IN  IF isna(fips)
             THEN FillFrom(r + 1, frame, fips_counts, weight_mask, fips_array)
             ELSE LET lat_idx == where_first(unique(Column(frame, "lat")), row.lat)
                      lon_idx == where_first(unique(Column(frame, "lon")), row.lon)
                      weight == IF fips \in DOMAIN fips_counts
                                THEN <<1, fips_counts[fips]>>
                                ELSE <<0, 1>>
                  IN  FillFrom(r + 1, frame, fips_counts,
                               [weight_mask EXCEPT ![lat_idx][lon_idx] = weight],
                               [fips_array EXCEPT ![lat_idx][lon_idx] = fips])

\* Lines 97-149 on a frame that has a FIPS column: the Dataset returned.
WeightMask(frame) ==
    LET fips_counts == value_counts(Column(frame, "FIPS"))
        lat_len == Len(unique(Column(frame, "lat")))
        lon_len == Len(unique(Column(frame, "lon")))
        filled == FillFrom(1, frame, fips_counts,
                           zeros(lat_len, lon_len), full_nan(lat_len, lon_len))
    IN  [FIPS |-> filled.fips_array,
         weights |-> filled.weight_mask,
         lat |-> sort(unique(Column(frame, "lat"))),
         lon |-> sort(unique(Column(frame, "lon")))]

\* create_weight_mask as it would be if it joined the present grid again instead
\* of reading the stored table.
create_weight_mask_rejoining ==
    /\ Constructed
    /\ op' = "create_weight_mask"
    /\ IF "grid_with_counties" \notin attrs
       THEN /\ outcome' = "AttributeError"
            /\ ds' = NoDataset
       ELSE IF "FIPS" \notin grid_with_counties.columns
       THEN /\ outcome' = "KeyError"
            /\ ds' = NoDataset
       ELSE /\ outcome' = "ok"
            /\ ds' = WeightMask(sjoin(grid_points, to_crs(counties)))
    /\ UNCHANGED <<args, attrs, county_identifier, counties, grid_points,
                   grid_with_counties, last_assignment>>

create_weight_mask ==
    /\ Constructed
    /\ op' = "create_weight_mask"
    /\ IF "grid_with_counties" \notin attrs
       THEN /\ outcome' = "AttributeError"
            /\ ds' = NoDataset
       ELSE IF "FIPS" \notin grid_with_counties.columns
       THEN /\ outcome' = "KeyError"
            /\ ds' = NoDataset
       ELSE /\ outcome' = "ok"
            /\ ds' = WeightMask(grid_with_counties)
    /\ UNCHANGED <<args, attrs, county_identifier, counties, grid_points,
                   grid_with_counties, last_assignment>>

Next ==
    \/ __init__
    \/ generate_grid_points
    \/ assign_grid_to_county
    \/ create_weight_mask

Spec == Init /\ [][Next]_vars

\* The constructor followed by calls of generate_grid_points alone.
GridNext ==
    \/ __init__
    \/ generate_grid_points_recorded

GridSpec == Init /\ [][GridNext]_vars

(***************************************************************************)
(* Properties of generate_grid_points (checked under GridSpec)             *)
(***************************************************************************)
\* A call of generate_grid_points has just returned a grid.
GridReturned == op = "generate_grid_points" /\ outcome = "ok"

\* The ranges and step counts in force in the last call, defaults applied.
CallLat == LatRangeOrBounds(counties, args.lat_range)

CallLon == LonRangeOrBounds(counties, args.lon_range)

CallL == StepsOrDefault(args.lat_steps)

CallW == StepsOrDefault(args.lon_steps)

\* The grid has L * W points and the point at i * W + j (0-based) is (lat[i], lon[j]).
RowMajor(lat, lon) ==
    /\ Len(grid_points) = CallL * CallW
    /\ \A i \in 1 .. CallL : \A j \in 1 .. CallW :
          /\ grid_points[(i - 1) * CallW + j].lat = lat[i]
          /\ grid_points[(i - 1) * CallW + j].lon = lon[j]

\* axis holds n evenly spaced values starting at range[1] (in degrees).
EvenlySpacedFrom(axis, range, n) ==
    /\ Len(axis) = n
    /\ axis[1] = range[1] * Scale
    /\ \A i \in 1 .. n : (n - 1) * (axis[i] - axis[1]) = (i - 1) * (range[2] - range[1]) * Scale

Ascending(axis) == \A i \in 1 .. Len(axis) - 1 : axis[i] < axis[i + 1]

\* The axes read off the grid: the latitude of each row, the longitude of each
\* column of the first row.
GridLat == [i \in 1 .. CallL |-> grid_points[(i - 1) * CallW + 1].lat]

GridLon == [j \in 1 .. CallW |-> grid_points[j].lon]

\* C3 as stated: for L >= 1 and W >= 1, generate_grid_points returns L * W points
\* in row-major order over evenly spaced ascending latitudes and longitudes whose
\* first and last values are the two endpoints of the requested range.
C3_EndpointsAscending ==
    (GridReturned /\ CallL >= 1 /\ CallW >= 1) =>
        /\ RowMajor(GridLat, GridLon)
        /\ EvenlySpacedFrom(GridLat, CallLat, CallL)
        /\ EvenlySpacedFrom(GridLon, CallLon, CallW)
        /\ (CallL >= 2 => Ascending(GridLat))
        /\ (CallW >= 2 => Ascending(GridLon))
        /\ GridLat[CallL] = CallLat[2] * Scale
        /\ GridLon[CallW] = CallLon[2] * Scale

\* C3 amended: for L >= 1 and W >= 1, generate_grid_points returns L * W points in
\* row-major order over L latitudes and W longitudes evenly spaced from the first
\* to the second value of the requested range; an axis of two or more values ends
\* at the second value and is ascending exactly when the range is, and an axis of
\* one value holds the first value of the range alone.
C3_RowMajorEvenlySpaced ==
    (GridReturned /\ CallL >= 1 /\ CallW >= 1) =>
        /\ RowMajor(GridLat, GridLon)
        /\ EvenlySpacedFrom(GridLat, CallLat, CallL)
        /\ EvenlySpacedFrom(GridLon, CallLon, CallW)
        /\ (CallL >= 2 => (GridLat[CallL] = CallLat[2] * Scale
                           /\ (Ascending(GridLat) <=> CallLat[1] < CallLat[2])))
        /\ (CallW >= 2 => (GridLon[CallW] = CallLon[2] * Scale
                           /\ (Ascending(GridLon) <=> CallLon[1] < CallLon[2])))
        /\ (CallL = 1 => GridLat = <<CallLat[1] * Scale>>)
        /\ (CallW = 1 => GridLon = <<CallLon[1] * Scale>>)

\* A single row over an ascending longitude range of MaxSteps values, and a
\* latitude range whose second endpoint the single latitude does not reach.
C3_Witness ==
    /\ GridReturned
    /\ CallL = 1
    /\ CallW = MaxSteps
    /\ CallLat[1] < CallLat[2]
    /\ CallLon[1] < CallLon[2]
    /\ Len(grid_points) = MaxSteps
    /\ grid_points[MaxSteps].lon = CallLon[2] * Scale

\* The call's arguments are malformed: a range without positive span, or a step
\* count that is not positive.
InvalidGridSpec ==
    \/ CallLat[2] <= CallLat[1]
    \/ CallLon[2] <= CallLon[1]
    \/ CallL <= 0
    \/ CallW <= 0

\* C8: generate_grid_points on a range of non-positive span or a non-positive step
\* count fails with InvalidGridSpec and leaves the stored grid as it was.
C8_InvalidGridSpecRaised ==
    [][(op' = "generate_grid_points" /\ InvalidGridSpec')
          => (outcome' = "InvalidGridSpec" /\ grid_points' = grid_points)]_vars

(***************************************************************************)
(* Properties of the pipeline (checked under Spec)                         *)
(***************************************************************************)
\* A call of assign_grid_to_county has just returned its table.
TableReturned == op = "assign_grid_to_county" /\ outcome = "ok"

\* A call of create_weight_mask has just returned its Dataset.
MaskReturned == op = "create_weight_mask" /\ outcome = "ok"

\* create_weight_mask has just been called on an instance that holds a table.
MaskRequested == op = "create_weight_mask" /\ "grid_with_counties" \in attrs

Rows == grid_with_counties.rows

Cells == (1 .. Len(ds.lat)) \X (1 .. Len(ds.lon))

\* The region identifiers in the mask's region layer.
RegionsPresent == {ds.FIPS[c[1]][c[2]] : c \in Cells} \ {NaN}

\* The exact sum of a sequence of rationals <<num, den>>, as <<num, den>>.
RECURSIVE RatSum(_)
RatSum(q) ==
    IF q = <<>> THEN <<0, 1>>
    ELSE LET h == Head(q)
             t == RatSum(Tail(q))
         IN  <<h[1] * t[2] + t[1] * h[2], h[2] * t[2]>>

\* The weights of the cells labelled R, row by row.
WeightsOf(R) ==
    LET region == ravel(ds.FIPS)
        weight == ravel(ds.weights)
        at == SelectSeq([k \in 1 .. Len(region) |-> k], LAMBDA k : region[k] = R)
    IN  [n \in 1 .. Len(at) |-> weight[at[n]]]

\* C1: in every mask returned, the weights of the cells of each region present
\* in the region layer sum to 1.
C1_WeightsSumToOne ==
    MaskReturned =>
        \A R \in RegionsPresent : RatSum(WeightsOf(R))[1] = RatSum(WeightsOf(R))[2]

\* C2: the assignment table has exactly one row per grid point, in the order of
\* the grid, so that no grid point appears with two region identifiers.
C2_OneRowPerPoint ==
    TableReturned =>
        /\ Len(Rows) = Len(grid_points)
        /\ \A k \in 1 .. Len(Rows) :
              k <= Len(grid_points) =>
                 /\ Rows[k].index = k - 1
                 /\ Rows[k].lat = grid_points[k].lat
                 /\ Rows[k].lon = grid_points[k].lon

\* The rows of the table at the coordinates of row r.
RowsAt(r) == {q \in 1 .. Len(Rows) : Rows[q].lat = Rows[r].lat /\ Rows[q].lon = Rows[r].lon}

\* The number of rows of the table assigned to the region fips.
CountOf(fips) == Cardinality({q \in 1 .. Len(Rows) : Rows[q].vals["FIPS"] = fips})

\* The weight the mask owes to a row: 0 when unassigned, else 1 / count of its region.
WeightOwed(r) ==
    IF isna(Rows[r].vals["FIPS"]) THEN <<0, 1>> ELSE <<1, CountOf(Rows[r].vals["FIPS"])>>

\* C4: the region and weight stored at cell (i, j) of a returned mask are those
\* of the assignment whose latitude is the i-th value of the mask's lat axis and
\* whose longitude is the j-th value of its lon axis (stated for the grid points
\* that have a single row in the table).
C4_LayersFollowAxes ==
    MaskReturned =>
        \A c \in Cells : \A r \in 1 .. Len(Rows) :
            (RowsAt(r) = {r} /\ Rows[r].lat = ds.lat[c[1]] /\ Rows[r].lon = ds.lon[c[2]]) =>
                /\ ds.FIPS[c[1]][c[2]] = Rows[r].vals["FIPS"]
                /\ ds.weights[c[1]][c[2]] = WeightOwed(r)

\* C5: a grid point within no county does not abort the pipeline: the join gives
\* it a row without region, its cell of the mask (the cell at its coordinates on
\* the mask's axes) has weight 0 and no region, and every other cell's weight is
\* 1 / the number of rows assigned to its region.
C5_UnassignedIsZero ==
    /\ (op = "assign_grid_to_county" /\ "grid_points" \in attrs /\ counties.crs # None)
          => outcome = "ok"
    /\ MaskReturned =>
          /\ \A c \in Cells : \A r \in 1 .. Len(Rows) :
                (isna(Rows[r].vals["FIPS"])
                    /\ Rows[r].lat = ds.lat[c[1]] /\ Rows[r].lon = ds.lon[c[2]]) =>
                        /\ ds.weights[c[1]][c[2]] = <<0, 1>>
                        /\ ds.FIPS[c[1]][c[2]] = NaN
          /\ \A c \in Cells :
                ds.FIPS[c[1]][c[2]] # NaN =>
                    ds.weights[c[1]][c[2]] = <<1, CountOf(ds.FIPS[c[1]][c[2]])>>

\* The values of the column named id in the shapefile gdf.
IdentifierValues(gdf, id) == {<<gdf.rows[r].vals[id]>> : r \in 1 .. Len(gdf.rows)}

\* C6: create_weight_mask keys the mask by the column the constructor was given:
\* the call succeeds and every region in the mask is a value of that column.
C6_ConfiguredIdentifierUsed ==
    MaskRequested =>
        /\ outcome = "ok"
        /\ RegionsPresent \subseteq IdentifierValues(counties, county_identifier)

\* Two rows of the shapefile gdf carry the same value in the column named id.
DuplicateIdentifier(gdf, id) ==
    \E r1, r2 \in 1 .. Len(gdf.rows) : r1 # r2 /\ gdf.rows[r1].vals[id] = gdf.rows[r2].vals[id]

\* C7: no instance is constructed over region data in which two regions carry
\* the same identifier (the constructor fails with DuplicateIdentifier).
C7_DuplicateIdentifierRejected ==
    Constructed => ~DuplicateIdentifier(counties, county_identifier)

\* C9: a mask is returned only when (number of unique latitudes) * (number of
\* unique longitudes) is the number of rows of the assignment table.
C9_ShapeMatchesTable ==
    MaskReturned => Len(ds.lat) * Len(ds.lon) = Len(Rows)

\* C10: generate_grid_points leaves the stored assignment table as it is,
\* create_weight_mask changes neither the table nor the grid and returns the mask
\* of the table the latest assign_grid_to_county returned, and a second
\* create_weight_mask right after a first returns an equal mask.
C10_MaskOfLatestAssignment ==
    [][/\ op' = "generate_grid_points" => grid_with_counties' = grid_with_counties
       /\ op' = "create_weight_mask" =>
            /\ grid_with_counties' = grid_with_counties
            /\ grid_points' = grid_points
            /\ outcome' = "ok" => ds' = WeightMask(last_assignment)
            /\ (MaskReturned /\ outcome' = "ok") => ds' = ds]_vars

\* The grid was replaced after the assignment and the mask returned is that of
\* the assignment, not that of the present grid.
C10_Witness ==
    /\ MaskReturned
    /\ RegionsPresent # {}
    /\ Len(grid_points) # 0
    /\ Len(last_assignment.rows) # Len(grid_points)
    /\ ds = WeightMask(last_assignment)
    /\ ds # WeightMask(sjoin(grid_points, to_crs(counties)))
====
